---- MODULE Spec2Model ----
(***************************************************************************)
(* Model of Discord-Bot/temperature_manager.py: the thermal supervisor     *)
(* that samples the Pi temperature and starts, throttles, un-throttles and *)
(* kills the worker process (bot.py), sending Discord alerts on the way.   *)
(*                                                                         *)
(* monitor_temperature is a coroutine: it runs from one `await` to the     *)
(* next.  Its code is written here as the pieces between the awaits        *)
(* (begin, resume); while it is suspended in `await send_alert(...)` the   *)
(* clock moves, the worker may exit and KeyboardInterrupt may be raised.   *)
(*                                                                         *)
(* Every specification of the supervisor steps the coroutine one piece at  *)
(* a time and send_alert one POST and one retry sleep at a time.           *)
(* Spec      : runs in which no shutdown is requested.                     *)
(* SpecEnv   : with failing sensor reads and failing state-file writes.    *)
(* SpecStop  : with KeyboardInterrupt, task cancellation and the graceful  *)
(*             stop.                                                       *)
(* SpecAlert : with every outcome of every POST of send_alert.             *)
(***************************************************************************)
EXTENDS Integers, Sequences, FiniteSets, TLC

(* ---------------- program constants (temperature_manager.py) ----------- *)
TEMP_ALERT_THRESHOLD == 85
TEMP_RESUME_THRESHOLD == 60
TEMP_KILL_THRESHOLD == 90
THROTTLE_DURATION == 300
CHECK_INTERVAL == 10
DISCORD_RETRY_DELAY == 30
MAX_RESTART_ATTEMPTS == 3
max_retries == 3
\* line 224: aiohttp.ClientTimeout(total=10) of one POST
POST_TIMEOUT == 10
SENSOR_ERROR_LIMIT == 5
\* line 186: seconds that stop_bot waits for a terminated worker
STOP_WAIT_TIMEOUT == 10
\* bot.py: pages of the scoreboard that are fetched at most
MAX_PAGES == 10

(* ---------------- bounds of the model ---------------------------------- *)
\* time.time() when the monitor starts (any positive number of seconds)
StartClock == 10
\* number of configured alert channels (CHANNEL_IDS)
NumChannels == 2
\* iterations of the monitoring loop that are followed
MaxSamples == 3
\* iterations that are followed when only the sensor read can go wrong
MaxReads == 11
\* iterations that are followed when send_alert is stepped through
MaxAlertSamples == 2
\* iterations that are followed when a shutdown may be requested
MaxStopSamples == 2
\* POSTs of one send_alert call that fail, where Discord is taken to be
\* mostly reachable
MaxFailedPosts == 1

\* get_pi_temperature() returned None
NoTemp == -1
\* temperature samples, whole degrees around the three thresholds
Temps ==
    { TEMP_RESUME_THRESHOLD - 1, TEMP_RESUME_THRESHOLD,
      TEMP_ALERT_THRESHOLD - 1, TEMP_ALERT_THRESHOLD,
      TEMP_KILL_THRESHOLD - 1, TEMP_KILL_THRESHOLD }

VARIABLES
    pc,                  \* position of monitor_temperature: "start", "await"
                         \* (inside await send_alert), "resume" (send_alert
                         \* has returned), "loop" (in the sleep that ends an
                         \* iteration, before line 264), "done" (the loop was
                         \* left by `break`), "raised" (KeyboardInterrupt
                         \* left the coroutine), "cancelled" (CancelledError
                         \* did)
    now,                 \* time.time()
    BOT_PROCESS,         \* "None", or the Popen handle's process: "alive", "killed", "exited"
    BOT_PID,             \* "None" or "pid"
    IS_THROTTLED,
    THROTTLE_START_TIME, \* 0 stands for None
    RESTART_ATTEMPTS,
    overheating_alerted,
    cooling_alerted,
    consecutive_errors,
    temp,                \* the loop's local `temp`: the last sample
    state_file,          \* bot_state.json: "absent" when there is none,
                         \* "running"   {bot_running: true,  throttled: false},
                         \* "throttled" {bot_running: true,  throttled: true},
                         \* "stopped"   {bot_running: false, throttled: false},
                         \* "empty"     opened for writing and not written
    workers,             \* worker processes launched by the supervisor and not yet exited
    last,                \* what the startup, iteration or shutdown under
                         \* way has done so far (observation only)
    hist,                \* observation only: failed_starts, consecutive failed
                         \* launches; kill_alerts, kill alerts since Throttled was
                         \* last entered; hot_run, every sample since then was
                         \* in [TEMP_ALERT_THRESHOLD, TEMP_KILL_THRESHOLD);
                         \* failed_reads, failed reads in a row up to now;
                         \* sensor_alerts, sensor alerts sent in that row
    sa,                  \* send_alert's frame: pc, channel index, retry_count,
                         \* and where its caller resumes
    attempts,            \* per channel: POSTs made by the current send_alert call
    delivered,           \* per channel: the attempt that got 200/204, 0 for none
    samples,             \* loop iterations begun
    ctfd                 \* bot.py, the worker's own program: the snapshot file,
                         \* the CTFd site and what the monitor task has sent

vars == << pc, now, BOT_PROCESS, BOT_PID, IS_THROTTLED, THROTTLE_START_TIME,
           RESTART_ATTEMPTS, overheating_alerted, cooling_alerted,
           consecutive_errors, temp, state_file, workers, last, hist, sa,
           attempts, delivered, samples, ctfd >>

supVars == << BOT_PROCESS, BOT_PID, IS_THROTTLED, THROTTLE_START_TIME,
              RESTART_ATTEMPTS, overheating_alerted, cooling_alerted,
              consecutive_errors, temp, state_file, workers >>

alertVars == << sa, attempts, delivered >>

Channels == 1 .. NumChannels

\* lines 365-366: the monitor only runs with at least one channel configured
CHANNEL_IDS_nonempty == NumChannels >= 1

\* what a tick has had from the operating system so far: the outcome of its
\* Popen, renice, kill()/terminate() and state-file write, the calls made on
\* the worker process in order, and how wait(timeout=10) ended
no_io ==
    [ popen |-> "none", nice |-> "none", signal |-> "none", write |-> "none",
      signals |-> << >>, wait |-> "none" ]

Count(seq, x) == Cardinality({ i \in DOMAIN seq : seq[i] = x })

(* ---------------- the globals as one record, threaded through a tick --- *)
\* at: where the coroutine is: "run", or the code that follows the await it
\* is suspended in (AwaitLabels), "sleep" (line 277 or 342), "loop", "done",
\* "raised", "cancelled"
Globals ==
    [ now |-> now,
      BOT_PROCESS |-> BOT_PROCESS,
      BOT_PID |-> BOT_PID,
      IS_THROTTLED |-> IS_THROTTLED,
      THROTTLE_START_TIME |-> THROTTLE_START_TIME,
      RESTART_ATTEMPTS |-> RESTART_ATTEMPTS,
      overheating_alerted |-> overheating_alerted,
      cooling_alerted |-> cooling_alerted,
      consecutive_errors |-> consecutive_errors,
      temp |-> temp,
      state_file |-> state_file,
      workers |-> workers,
      at |-> "run",
      alerts |-> << >>,          \* send_alert calls of this tick, in order
      calls |-> << >>,           \* start/throttle/unthrottle/stop calls of this tick
      launches |-> 0,            \* Popen calls of this tick
      io |-> no_io,              \* outcomes of this tick's OS calls
      time_throttled |-> -1,     \* line 302's local, -1 when not computed
      failed_starts |-> hist.failed_starts,
      kill_alerts |-> hist.kill_alerts,
      hot_run |-> hist.hot_run,
      failed_reads |-> hist.failed_reads,
      sensor_alerts |-> hist.sensor_alerts ]

\* the awaits of send_alert, named by the code that follows them: line 256
\* (start_bot), 276 (reset_errors), 291 (hot), 310 (kill), 322 (restart),
\* 332 (unthrottle), 351 (stop)
AwaitLabels ==
    { "start_bot", "reset_errors", "hot", "kill", "restart", "unthrottle",
      "stop" }

\* faulty variant (C2): the worker is taken to be gone as soon as its pid is
\* cleared
poll_is_None_by_pid(s) == s.BOT_PID # "None"

\* `BOT_PROCESS and BOT_PROCESS.poll() is None`: a killed process that has not
\* exited yet still polls as None.
poll_is_None(s) == s.BOT_PROCESS \in {"alive", "killed"}

\* The supervisor's state in the spec's terms.  A worker that has been sent
\* the kill signal counts as stopped, also while it has not exited yet.
StateOf(proc, throttled) ==
    IF proc = "alive" THEN (IF throttled THEN "Throttled" ELSE "Running")
    ELSE "Stopped"

State == StateOf(BOT_PROCESS, IS_THROTTLED)

(* ---------------- state store ------------------------------------------ *)
\* how a write of the state file ends: written; open() raises and the file is
\* as before; open(STATE_FILE, "w") has emptied the file and json.dump raises
WriteOutcomes == { "ok", "open_raised", "write_raised" }

\* faulty variant (C14): no try/except around the write, the error reaches the
\* caller's `except Exception`, which counts a failed start
save_state_raising(s, data, write) ==
    IF write = "ok"
    THEN [s EXCEPT !.state_file = data, !.io.write = "ok"]
    ELSE [s EXCEPT !.state_file = IF write = "write_raised" THEN "empty" ELSE @,
                   !.io.write = "raised",
                   !.RESTART_ATTEMPTS = (@ + 1) % MAX_RESTART_ATTEMPTS]

\* lines 48-54: a write that raises is logged and nothing else happens
save_state(s, data, write) ==
    IF write = "ok"
    THEN [s EXCEPT !.state_file = data, !.io.write = "ok"]
    ELSE [s EXCEPT !.state_file = IF write = "write_raised" THEN "empty" ELSE @,
                   !.io.write = "raised"]

\* lines 56-66: what load_state() gives for the state file: a missing file and
\* a file that does not parse read as {"bot_running": False, "throttled": False}
load_state(file) == IF file \in {"absent", "empty"} THEN "stopped" ELSE file

(* ---------------- process management ----------------------------------- *)
\* the observation counts stop counting one past the largest value a claim
\* compares them with
Bump(n) == IF n > MAX_RESTART_ATTEMPTS THEN n ELSE n + 1

\* faulty variant (C26): the counter is not set back when it reaches
\* MAX_RESTART_ATTEMPTS
start_bot_no_wrap(s, in) ==
    LET c == [s EXCEPT !.calls = Append(@, "start_bot")] IN
    IF poll_is_None(s)
    THEN [c EXCEPT !.RESTART_ATTEMPTS = 0, !.failed_starts = 0]
    ELSE IF in.launch
    THEN save_state([c EXCEPT !.BOT_PROCESS = "alive", !.BOT_PID = "pid",
                              !.IS_THROTTLED = FALSE, !.RESTART_ATTEMPTS = 0,
                              !.workers = @ + 1, !.launches = @ + 1,
                              !.failed_starts = 0, !.io.popen = "ok"],
                    "running", in.write)
    ELSE [c EXCEPT !.launches = @ + 1,
                   !.io.popen = "raised",
                   !.failed_starts = Bump(@),
                   !.RESTART_ATTEMPTS = @ + 1]

\* faulty variant (C19): a successful launch leaves RESTART_ATTEMPTS as it was
start_bot_keeps_counter(s, in) ==
    LET c == [s EXCEPT !.calls = Append(@, "start_bot")] IN
    IF poll_is_None(s)
    THEN [c EXCEPT !.RESTART_ATTEMPTS = 0, !.failed_starts = 0]
    ELSE IF in.launch
    THEN save_state([c EXCEPT !.BOT_PROCESS = "alive", !.BOT_PID = "pid",
                              !.IS_THROTTLED = FALSE,
                              !.workers = @ + 1, !.launches = @ + 1,
                              !.failed_starts = 0, !.io.popen = "ok"],
                    "running", in.write)
    ELSE LET r == c.RESTART_ATTEMPTS + 1 IN
         [c EXCEPT !.launches = @ + 1,
                   !.io.popen = "raised",
                   !.failed_starts = Bump(@),
                   !.RESTART_ATTEMPTS =
                        IF r >= MAX_RESTART_ATTEMPTS THEN 0 ELSE r]

\* lines 100-129
start_bot(s, in) ==
    LET c == [s EXCEPT !.calls = Append(@, "start_bot")] IN
    IF poll_is_None(s)
    THEN [c EXCEPT !.RESTART_ATTEMPTS = 0, !.failed_starts = 0]
    ELSE IF in.launch
    THEN save_state([c EXCEPT !.BOT_PROCESS = "alive", !.BOT_PID = "pid",
                              !.IS_THROTTLED = FALSE, !.RESTART_ATTEMPTS = 0,
                              !.workers = @ + 1, !.launches = @ + 1,
                              !.failed_starts = 0, !.io.popen = "ok"],
                    "running", in.write)
    ELSE LET r == c.RESTART_ATTEMPTS + 1 IN
         [c EXCEPT !.launches = @ + 1,
                   !.io.popen = "raised",
                   !.failed_starts = Bump(@),
                   !.RESTART_ATTEMPTS =
                        IF r >= MAX_RESTART_ATTEMPTS THEN 0 ELSE r]

\* lines 131-150
throttle_bot(s, in) ==
    LET c == [s EXCEPT !.calls = Append(@, "throttle_bot")] IN
    IF s.BOT_PID = "None" \/ s.IS_THROTTLED THEN c
    ELSE IF in.renice
    THEN save_state([c EXCEPT !.IS_THROTTLED = TRUE,
                              !.THROTTLE_START_TIME = c.now,
                              !.kill_alerts = 0, !.hot_run = TRUE,
                              !.io.nice = "ok"],
                    "throttled", in.write)
    ELSE [c EXCEPT !.io.nice = "raised"]

\* lines 152-167
unthrottle_bot(s, in) ==
    LET c == [s EXCEPT !.calls = Append(@, "unthrottle_bot")] IN
    IF s.BOT_PID = "None" \/ ~s.IS_THROTTLED THEN c
    ELSE IF in.renice
    THEN save_state([c EXCEPT !.IS_THROTTLED = FALSE, !.io.nice = "ok"],
                    "running", in.write)
    ELSE [c EXCEPT !.io.nice = "raised"]

\* lines 191-195 of stop_bot: the globals are cleared and the state is saved
mark_stopped(s, in) ==
    save_state([s EXCEPT !.BOT_PID = "None", !.IS_THROTTLED = FALSE,
                         !.io.signal = "ok"],
               "stopped", in.write)

\* lines 183-186 of stop_bot: terminate() has been sent and the wait has ended
\* (the worker exited after in.waited seconds) or has timed out
waited_for(s, in) ==
    IF in.exits
    THEN [s EXCEPT !.BOT_PROCESS = "exited", !.workers = @ - 1,
                   !.now = @ + in.waited,
                   !.io.signals = @ \o << "terminate", "wait" >>,
                   !.io.wait = "exited"]
    ELSE [s EXCEPT !.now = @ + STOP_WAIT_TIMEOUT,
                   !.io.signals = @ \o << "terminate", "wait" >>,
                   !.io.wait = "timeout"]

\* faulty variant (C23): a graceful stop that does not kill the worker when
\* the wait times out
stop_bot_no_escalation(s, force, in) ==
    LET c == [s EXCEPT !.calls = Append(@, "stop_bot")] IN
    IF ~poll_is_None(s) THEN c
    ELSE IF ~in.kill THEN [c EXCEPT !.io.signal = "raised"]
    ELSE IF force
    THEN mark_stopped([c EXCEPT !.BOT_PROCESS = "killed",
                                !.io.signals = Append(@, "kill")], in)
    ELSE mark_stopped(waited_for(c, in), in)

\* lines 169-198.  force: kill() and no wait.  Otherwise terminate(),
\* wait(timeout=10) and, on TimeoutExpired, kill().  in.kill: the first signal
\* call (kill() when forced, terminate() otherwise) does not raise;
\* in.exits: the worker exits within the wait; in.kill_after: the kill() that
\* follows the timeout does not raise.  An exception from any of them is
\* caught at line 196: the globals stay as they are.
stop_bot(s, force, in) ==
    LET c == [s EXCEPT !.calls = Append(@, "stop_bot")] IN
    IF ~poll_is_None(s) THEN c
    ELSE IF ~in.kill THEN [c EXCEPT !.io.signal = "raised"]
    ELSE IF force
    THEN mark_stopped([c EXCEPT !.BOT_PROCESS = "killed",
                                !.io.signals = Append(@, "kill")], in)
    ELSE LET w == waited_for(c, in) IN
         IF in.exits THEN mark_stopped(w, in)
         ELSE IF in.kill_after
         THEN mark_stopped([w EXCEPT !.BOT_PROCESS = "killed",
                                     !.io.signals = Append(@, "kill")], in)
         ELSE [w EXCEPT !.io.signal = "raised"]

(* ---------------- the coroutine between its awaits --------------------- *)
\* `await send_alert(...)`: the call is made and the coroutine is suspended
\* until it returns; it then goes on with the code named by `resume`
call_alert(s, kind, resume) ==
    [s EXCEPT !.alerts = Append(@, kind), !.at = resume]

\* lines 277 and 342: the iteration ends in asyncio.sleep(CHECK_INTERVAL)
sleep(s) == [s EXCEPT !.at = "sleep"]

is_overheating(t) == t >= TEMP_ALERT_THRESHOLD

\* faulty variant (C3): one threshold for throttling and for resuming
is_cooled_single_threshold(t) == t < TEMP_ALERT_THRESHOLD

is_cooled(t) == t < TEMP_RESUME_THRESHOLD

\* faulty variant (C18): escalation by the throttle duration only
escalate_duration_only(s, in) ==
    IF s.IS_THROTTLED /\ s.THROTTLE_START_TIME # 0
    THEN LET t == s.now - s.THROTTLE_START_TIME
             c == [s EXCEPT !.time_throttled = t]
         IN IF t > THROTTLE_DURATION
            THEN [call_alert(c, "killed", "kill") EXCEPT !.kill_alerts = Bump(@)]
            ELSE sleep(c)
    ELSE sleep(s)

\* lines 300-309: the kill alert is awaited, stop_bot follows it
escalate(s, in) ==
    IF s.IS_THROTTLED /\ s.THROTTLE_START_TIME # 0
    THEN LET t == s.now - s.THROTTLE_START_TIME
             c == [s EXCEPT !.time_throttled = t]
         IN IF t > THROTTLE_DURATION \/ s.temp >= TEMP_KILL_THRESHOLD
            THEN [call_alert(c, "killed", "kill") EXCEPT !.kill_alerts = Bump(@)]
            ELSE sleep(c)
    ELSE sleep(s)

\* lines 295-309
hot_worker(s, in) ==
    IF poll_is_None(s)
    THEN escalate(IF ~s.IS_THROTTLED THEN throttle_bot(s, in) ELSE s, in)
    ELSE sleep(s)

\* lines 284-290, and 295-309 when no alert is due
too_high(s, in) ==
    IF ~s.overheating_alerted
    THEN call_alert(s, "overheating", "hot")
    ELSE hot_worker(s, in)

\* lines 291-309: the overheating alert has returned
after_overheating_alert(s, in) ==
    hot_worker([s EXCEPT !.overheating_alerted = TRUE,
                         !.cooling_alerted = FALSE], in)

\* line 310: the kill alert has returned
after_kill_alert(s, in) == sleep(stop_bot(s, TRUE, in))

\* lines 313-331, up to the first await
cooling_down(s, in) ==
    IF ~poll_is_None(s)
    THEN IF ~s.cooling_alerted
         THEN call_alert(s, "cooled_restart", "restart")
         ELSE sleep(start_bot(s, in))
    ELSE IF s.IS_THROTTLED
    THEN call_alert(s, "cooled_unthrottle", "unthrottle")
    ELSE sleep(s)

\* lines 322-325: the alert of line 317 has returned
after_restart_alert(s, in) ==
    sleep(start_bot([s EXCEPT !.cooling_alerted = TRUE,
                              !.overheating_alerted = FALSE], in))

\* lines 332-334: the alert of line 327 has returned
after_unthrottle_alert(s, in) ==
    sleep([unthrottle_bot(s, in) EXCEPT !.cooling_alerted = TRUE,
                                        !.overheating_alerted = FALSE])

\* faulty variant (C4): the band restores the priority of a throttled worker
moderate_unthrottles(s, in) ==
    IF s.IS_THROTTLED THEN unthrottle_bot(s, in) ELSE s

\* lines 337-340: only a log line
moderate(s, in) == s

\* faulty variant (C16): a failed read is taken for a reading of 0 degrees
no_reading_as_zero(s, in) == cooling_down(s, in)

\* lines 266-275: get_pi_temperature() returned None
no_reading(s, in) ==
    LET e == [s EXCEPT !.consecutive_errors = @ + 1, !.failed_reads = @ + 1] IN
    IF e.consecutive_errors >= SENSOR_ERROR_LIMIT
    THEN [call_alert(e, "sensor_error", "reset_errors")
            EXCEPT !.sensor_alerts = @ + 1]
    ELSE sleep(e)

\* faulty variant (C25): the count is not reset once the alert has been sent
after_sensor_alert_no_reset(s, in) == sleep(s)

\* lines 276-278: the sensor alert has returned
after_sensor_alert(s, in) == sleep([s EXCEPT !.consecutive_errors = 0])

\* line 256: the online alert has returned; the loop is entered
after_online_alert(s, in) == [start_bot(s, in) EXCEPT !.at = "loop"]

\* line 351-352: the shutdown alert has returned
after_stopped_alert(s, in) == [stop_bot(s, FALSE, in) EXCEPT !.at = "done"]

\* lines 264-342 up to the iteration's first await, or to its sleep
begin(s0, in) ==
    LET s == [s0 EXCEPT !.temp = in.temp,
                        !.hot_run = @ /\ is_overheating(in.temp)
                                       /\ in.temp < TEMP_KILL_THRESHOLD] IN
    IF s.temp = NoTemp
    THEN no_reading(s, in)
    ELSE LET r == [s EXCEPT !.consecutive_errors = 0,
                            !.failed_reads = 0, !.sensor_alerts = 0] IN
         IF is_overheating(r.temp) THEN too_high(r, in)
         ELSE IF is_cooled(r.temp) THEN cooling_down(r, in)
         ELSE sleep(moderate(r, in))

\* the code that follows the await in which the coroutine is suspended, up to
\* the next await, the sleep or the end
resume(s, in) ==
    CASE s.at = "start_bot" -> after_online_alert(s, in)
      [] s.at = "reset_errors" -> after_sensor_alert(s, in)
      [] s.at = "hot" -> after_overheating_alert(s, in)
      [] s.at = "kill" -> after_kill_alert(s, in)
      [] s.at = "restart" -> after_restart_alert(s, in)
      [] s.at = "unthrottle" -> after_unthrottle_alert(s, in)
      [] s.at = "stop" -> after_stopped_alert(s, in)

(* ---------------- the coroutine suspended and resumed ------------------ *)
\* the coroutine as it is while it is suspended in `await send_alert(...)`:
\* the globals, the await it is in, and what its iteration has done so far
Suspended ==
    [ Globals EXCEPT !.at = sa.ret,
                     !.alerts = last.alerts,
                     !.calls = last.calls,
                     !.launches = last.launches,
                     !.io = last.io,
                     !.time_throttled = last.time_throttled ]

\* KeyboardInterrupt raised in the coroutine: inside the loop's `try` (lines
\* 263-342) the handler of lines 344-352 runs, which awaits the shutdown alert;
\* at line 249 and inside the handler itself the exception leaves the coroutine
interrupted(s) ==
    IF s.at \in {"start_bot", "stop"}
    THEN [s EXCEPT !.at = "raised"]
    ELSE call_alert(s, "stopped", "stop")

\* the task is cancelled (asyncio.run does so on SIGINT): CancelledError is
\* raised at the await or the sleep the coroutine is suspended in; neither
\* `except KeyboardInterrupt` nor `except Exception` catches it
cancelled(s) == [s EXCEPT !.at = "cancelled"]

CommitGlobals(s) ==
    /\ BOT_PROCESS' = s.BOT_PROCESS
    /\ BOT_PID' = s.BOT_PID
    /\ IS_THROTTLED' = s.IS_THROTTLED
    /\ THROTTLE_START_TIME' = s.THROTTLE_START_TIME
    /\ RESTART_ATTEMPTS' = s.RESTART_ATTEMPTS
    /\ overheating_alerted' = s.overheating_alerted
    /\ cooling_alerted' = s.cooling_alerted
    /\ consecutive_errors' = s.consecutive_errors
    /\ temp' = s.temp
    /\ state_file' = s.state_file
    /\ workers' = s.workers

Commit(s) ==
    /\ CommitGlobals(s)
    /\ hist' = [ failed_starts |-> s.failed_starts,
                 kill_alerts |-> s.kill_alerts,
                 hot_run |-> s.hot_run,
                 failed_reads |-> s.failed_reads,
                 sensor_alerts |-> s.sensor_alerts ]

\* where monitor_temperature is once a piece of it has run to s.at
pc_of(s) ==
    IF s.at \in AwaitLabels THEN "await"
    ELSE IF s.at = "sleep" THEN "loop"
    ELSE s.at

\* What the startup, the iteration or the shutdown under way has done so far.
\* act: "startup", "tick", "shutdown" once it has run to its end; "await"
\* while it is suspended in send_alert; "raised", "cancelled" when an
\* exception has left the coroutine.  sample, from, restarts: the sample, the
\* supervisor's state and RESTART_ATTEMPTS at its beginning.
Observed(s, sample, from, restarts) ==
    [ act |-> IF s.at \in AwaitLabels THEN "await"
              ELSE IF s.at = "sleep" THEN "tick"
              ELSE IF s.at = "loop" THEN "startup"
              ELSE IF s.at = "done" THEN "shutdown"
              ELSE s.at,
      temp |-> sample, from |-> from,
      alerts |-> s.alerts, calls |-> s.calls, launches |-> s.launches,
      time_throttled |-> s.time_throttled, io |-> s.io,
      restarts |-> restarts ]

(* ---------------- inputs of a piece of the coroutine ------------------- *)
\* temp: the sample; renice / launch / kill / kill_after: the OS call
\* succeeds; write: how a write of the state file ends; exits, waited: the
\* worker exits within the graceful wait, after so many seconds; period:
\* seconds of wall clock (time.time()) from the end of this iteration to the
\* next sample: the sleep of CHECK_INTERVAL, or longer when the clock was
\* stepped or the sleep overran.
Periods == { CHECK_INTERVAL, THROTTLE_DURATION - CHECK_INTERVAL }

\* every OS call succeeds and every iteration lasts CHECK_INTERVAL
AllOk(t) ==
    [ temp |-> t, renice |-> TRUE, launch |-> TRUE, kill |-> TRUE,
      kill_after |-> TRUE, write |-> "ok", exits |-> TRUE, waited |-> 0,
      period |-> CHECK_INTERVAL ]

\* A piece makes at most one of the launch and the renice call, so one outcome
\* stands for whichever is made.  The state file can be written; the graceful
\* stop (kill_after, exits, waited) is not reached from an iteration.
Inputs ==
    { [ AllOk(t) EXCEPT !.renice = o, !.launch = o, !.kill = k, !.period = p ] :
      t \in Temps, o \in BOOLEAN, k \in BOOLEAN, p \in Periods }

\* the inputs of a piece that takes no sample
ResumeInputs == { [ in EXCEPT !.temp = NoTemp ] : in \in Inputs }

(* ---------------- send_alert, step by step ----------------------------- *)
idle_frame ==
    [ pc |-> "idle", ch |-> 1, retry_count |-> 0, ret |-> "none" ]

no_posts == [ c \in Channels |-> 0 ]

\* outcomes of one `session.post`: 200/204, another status, asyncio.TimeoutError,
\* any other exception
Outcomes == { "ok", "status", "timeout", "error" }

\* whole seconds of wall clock one POST takes: the ClientTimeout of line 224
\* when it times out; an answer or another error comes within the second
PostTimes(outcome) ==
    IF outcome = "timeout" THEN { POST_TIMEOUT } ELSE { 0 }

\* line 205's `for`: on to the next channel with a fresh retry_count, or return
next_channel(f) ==
    IF f.ch < NumChannels
    THEN [ f EXCEPT !.pc = "post", !.ch = @ + 1, !.retry_count = 0 ]
    ELSE [ f EXCEPT !.pc = "idle", !.ch = 1, !.retry_count = 0 ]

\* faulty variant (C8): a non-2xx answer is retried without being counted
after_post_status_uncounted(f, outcome) ==
    IF outcome = "ok"
    THEN next_channel(f)
    ELSE LET g == IF outcome = "status" THEN f
                  ELSE [ f EXCEPT !.retry_count = @ + 1 ] IN
         IF g.retry_count < max_retries
         THEN [ g EXCEPT !.pc = "sleep" ]
         ELSE next_channel(g)

\* lines 209-239: what follows one POST with the given outcome
after_post(f, outcome) ==
    IF outcome = "ok"
    THEN next_channel(f)
    ELSE LET g == [ f EXCEPT !.retry_count = @ + 1 ] IN
         IF g.retry_count < max_retries
         THEN [ g EXCEPT !.pc = "sleep" ]
         ELSE next_channel(g)

\* POSTs of the current send_alert call that have failed
FailedPosts ==
    Cardinality({ p \in Channels \X (1 .. max_retries) :
                    p[2] <= attempts[p[1]] /\ p[2] # delivered[p[1]] })

\* bot.py before its monitor task has run
idle_ctfd == [ act |-> "init" ]

(* ---------------- actions ---------------------------------------------- *)
\* bot_state.json outlives the process and is never removed or read by it:
\* the monitor starts with no file (first run) or with what an earlier run
\* left
InitFiles == { "absent", "running", "throttled", "stopped", "empty" }

Init ==
    /\ pc = "start"
    /\ now = StartClock
    /\ BOT_PROCESS = "None"
    /\ BOT_PID = "None"
    /\ IS_THROTTLED = FALSE
    /\ THROTTLE_START_TIME = 0
    /\ RESTART_ATTEMPTS = 0
    /\ overheating_alerted = FALSE
    /\ cooling_alerted = FALSE
    /\ consecutive_errors = 0
    /\ temp = NoTemp
    /\ state_file \in InitFiles
    /\ workers = 0
    /\ last = [ act |-> "init", temp |-> NoTemp, from |-> "Stopped",
                alerts |-> << >>, calls |-> << >>, launches |-> 0,
                time_throttled |-> -1, io |-> no_io, restarts |-> 0 ]
    /\ hist = [ failed_starts |-> 0, kill_alerts |-> 0, hot_run |-> FALSE,
                failed_reads |-> 0, sensor_alerts |-> 0 ]
    /\ sa = idle_frame
    /\ attempts = no_posts
    /\ delivered = no_posts
    /\ samples = 0
    /\ ctfd = idle_ctfd

\* A piece of the coroutine has run to s.at: into `await send_alert(...)`
\* (lines 249, 271, 286, 305, 317, 327, 346), whose frame is set up, into the
\* sleep that ends the iteration (the next sample follows in.period later),
\* to the top of the loop, or to its end.
Ran(s, in) ==
    /\ Commit(s)
    /\ pc' = pc_of(s)
    /\ now' = IF s.at = "sleep" THEN s.now + in.period ELSE s.now
    /\ sa' = IF s.at \in AwaitLabels
             THEN [ pc |-> "post", ch |-> 1, retry_count |-> 0, ret |-> s.at ]
             ELSE idle_frame
    /\ attempts' = no_posts
    /\ delivered' = no_posts

\* the first piece of a startup, an iteration or a shutdown
Begun(s, in) ==
    /\ Ran(s, in)
    /\ last' = Observed(s, in.temp, State, RESTART_ATTEMPTS)

\* a later piece
Resumed(s, in) ==
    /\ Ran(s, in)
    /\ last' = Observed(s, last.temp, last.from, last.restarts)

\* lines 248-249: the coroutine starts and awaits the online alert
Startup ==
    /\ pc = "start"
    /\ CHANNEL_IDS_nonempty
    /\ Begun(call_alert(Globals, "online", "start_bot"), AllOk(NoTemp))
    /\ UNCHANGED << samples, ctfd >>

\* faulty variant (C20): no `except Exception` around the POST, the error
\* leaves send_alert and lands in the loop's handler (lines 353-356), which
\* counts it in consecutive_errors
AlertPost_raising ==
    /\ pc = "await"
    /\ sa.pc = "post"
    /\ \E outcome \in Outcomes :
          LET f == IF outcome = "error"
                   THEN [ sa EXCEPT !.pc = "idle", !.ch = 1, !.retry_count = 0 ]
                   ELSE after_post(sa, outcome) IN
          /\ attempts' = [ attempts EXCEPT ![sa.ch] = @ + 1 ]
          /\ delivered' = IF outcome = "ok"
                           THEN [ delivered EXCEPT ![sa.ch] = attempts[sa.ch] + 1 ]
                           ELSE delivered
          /\ sa' = f
          /\ pc' = IF outcome = "error" THEN "loop"
                   ELSE IF f.pc = "idle" THEN "resume" ELSE pc
          /\ consecutive_errors' =
                IF outcome = "error" THEN consecutive_errors + 1
                ELSE consecutive_errors
          /\ \E d \in PostTimes(outcome) : now' = now + d
    /\ UNCHANGED << BOT_PROCESS, BOT_PID, IS_THROTTLED, THROTTLE_START_TIME,
                    RESTART_ATTEMPTS, overheating_alerted, cooling_alerted,
                    temp, state_file, workers, last, hist, samples, ctfd >>

\* lines 209-236: one POST to the current channel, the time it takes, and what
\* the code does with its outcome; after the last one send_alert returns
AlertPost ==
    /\ pc = "await"
    /\ sa.pc = "post"
    /\ \E outcome \in Outcomes :
          LET f == after_post(sa, outcome) IN
          /\ attempts' = [ attempts EXCEPT ![sa.ch] = @ + 1 ]
          /\ delivered' = IF outcome = "ok"
                           THEN [ delivered EXCEPT ![sa.ch] = attempts[sa.ch] + 1 ]
                           ELSE delivered
          /\ sa' = f
          /\ pc' = IF f.pc = "idle" THEN "resume" ELSE pc
          /\ \E d \in PostTimes(outcome) : now' = now + d
    /\ UNCHANGED << supVars, last, hist, samples, ctfd >>

\* the same with Discord failing at most MaxFailedPosts POSTs of a call
AlertPostFew ==
    /\ pc = "await"
    /\ sa.pc = "post"
    /\ \E outcome \in Outcomes :
          LET f == after_post(sa, outcome) IN
          /\ outcome # "ok" => FailedPosts < MaxFailedPosts
          /\ attempts' = [ attempts EXCEPT ![sa.ch] = @ + 1 ]
          /\ delivered' = IF outcome = "ok"
                           THEN [ delivered EXCEPT ![sa.ch] = attempts[sa.ch] + 1 ]
                           ELSE delivered
          /\ sa' = f
          /\ pc' = IF f.pc = "idle" THEN "resume" ELSE pc
          /\ \E d \in PostTimes(outcome) : now' = now + d
    /\ UNCHANGED << supVars, last, hist, samples, ctfd >>

\* line 239: asyncio.sleep(DISCORD_RETRY_DELAY)
AlertSleep ==
    /\ pc = "await"
    /\ sa.pc = "sleep"
    /\ sa' = [ sa EXCEPT !.pc = "post" ]
    /\ now' = now + DISCORD_RETRY_DELAY
    /\ UNCHANGED << pc, supVars, last, hist, attempts, delivered, samples, ctfd >>

\* send_alert has returned inside the startup or an iteration: the code after
\* the await runs, up to the next await, the sleep or the top of the loop
Resume ==
    /\ pc = "resume"
    /\ sa.ret # "stop"
    /\ \E in \in ResumeInputs : Resumed(resume(Suspended, in), in)
    /\ UNCHANGED << samples, ctfd >>

\* lines 264-342: the loop takes its next sample and runs up to the first
\* await of the iteration or to asyncio.sleep(CHECK_INTERVAL)
Tick ==
    /\ pc = "loop"
    /\ samples < MaxSamples
    /\ samples' = samples + 1
    /\ \E in \in Inputs : Begun(begin(Globals, in), in)
    /\ UNCHANGED ctfd

\* the worker exits: on its own, or after the kill signal
WorkerExit ==
    /\ BOT_PROCESS \in {"alive", "killed"}
    /\ BOT_PROCESS' = "exited"
    /\ workers' = workers - 1
    /\ last' = [ last EXCEPT !.act = "exit" ]
    /\ UNCHANGED << pc, now, BOT_PID, IS_THROTTLED, THROTTLE_START_TIME,
                    RESTART_ATTEMPTS, overheating_alerted, cooling_alerted,
                    consecutive_errors, temp, state_file, hist, samples,
                    alertVars, ctfd >>

\* the first run on a machine: no state file yet
FirstRun == Init /\ state_file = "absent"

\* runs in which no shutdown is requested
Next == Startup \/ AlertPostFew \/ AlertSleep \/ Resume \/ Tick \/ WorkerExit

Spec == Init /\ [][Next]_vars

(* ---------------- the loop with failing reads and failing writes ------- *)
\* As Inputs, and the sensor read may fail and the state file may be
\* unwritable.  Every iteration lasts CHECK_INTERVAL.
InputsEnv ==
    { [ AllOk(t) EXCEPT !.renice = o, !.launch = o, !.kill = k, !.write = w ] :
      t \in Temps \cup {NoTemp}, o \in BOOLEAN, k \in BOOLEAN,
      w \in WriteOutcomes }

ResumeInputsEnv == { [ in EXCEPT !.temp = NoTemp ] : in \in InputsEnv }

ResumeEnv ==
    /\ pc = "resume"
    /\ sa.ret # "stop"
    /\ \E in \in ResumeInputsEnv : Resumed(resume(Suspended, in), in)
    /\ UNCHANGED << samples, ctfd >>

TickEnv ==
    /\ pc = "loop"
    /\ samples < MaxSamples
    /\ samples' = samples + 1
    /\ \E in \in InputsEnv : Begun(begin(Globals, in), in)
    /\ UNCHANGED ctfd

NextEnv ==
    Startup \/ AlertPostFew \/ AlertSleep \/ ResumeEnv \/ TickEnv \/ WorkerExit

SpecEnv == Init /\ [][NextEnv]_vars

(* ---------------- the loop with a shutdown request --------------------- *)
\* outcomes of the graceful stop: terminate() may raise, the worker may or may
\* not exit within wait(timeout=10), the kill() after the timeout may raise,
\* the state file may be unwritable
StopInputs ==
    { [ AllOk(NoTemp) EXCEPT !.kill = k, !.kill_after = ka, !.exits = e,
                             !.waited = w, !.write = wr ] :
      k \in BOOLEAN, ka \in BOOLEAN, e \in BOOLEAN,
      w \in { 0, STOP_WAIT_TIMEOUT \div 2 }, wr \in WriteOutcomes }

TickStop ==
    /\ pc = "loop"
    /\ samples < MaxStopSamples
    /\ samples' = samples + 1
    /\ \E in \in Inputs : Begun(begin(Globals, in), in)
    /\ UNCHANGED ctfd

\* KeyboardInterrupt is raised in the coroutine while it is suspended in
\* send_alert or in the sleep between two iterations
Interrupt ==
    /\ pc \in {"await", "loop"}
    /\ IF pc = "await"
       THEN Resumed(interrupted(Suspended), AllOk(NoTemp))
       ELSE Begun(interrupted(Globals), AllOk(NoTemp))
    /\ UNCHANGED << samples, ctfd >>

\* the task is cancelled while it is suspended in send_alert or in the sleep
\* between two iterations
Cancel ==
    /\ pc \in {"await", "loop"}
    /\ IF pc = "await"
       THEN Resumed(cancelled(Suspended), AllOk(NoTemp))
       ELSE Begun(cancelled(Globals), AllOk(NoTemp))
    /\ UNCHANGED << samples, ctfd >>

\* lines 351-352: the shutdown alert has returned, stop_bot() and `break`
StopResume ==
    /\ pc = "resume"
    /\ sa.ret = "stop"
    /\ \E in \in StopInputs : Resumed(resume(Suspended, in), in)
    /\ UNCHANGED << samples, ctfd >>

NextStop ==
    \/ Startup \/ AlertPostFew \/ AlertSleep \/ Resume \/ TickStop
    \/ WorkerExit \/ Interrupt \/ Cancel \/ StopResume

SpecStop == Init /\ [][NextStop]_vars

(* ---------------- get_pi_temperature ----------------------------------- *)
\* A float of degrees Celsius as whole degrees and thousandths; ok = FALSE
\* stands for None.
None == [ ok |-> FALSE, deg |-> 0, milli |-> 0 ]

Celsius(deg, milli) == [ ok |-> TRUE, deg |-> deg, milli |-> milli ]

\* line 92: temp_millic / 1000.0
from_millic(m) == Celsius(m \div 1000, m % 1000)

\* line 85-86: float() of what stands between "=" and "'C" in "temp=54.0'C"
from_stdout(out) == Celsius(out.deg, out.tenth * 100)

\* What `vcgencmd measure_temp` can do: not start (subprocess.run raises
\* FileNotFoundError or another OSError), run over the 5 s timeout
\* (TimeoutExpired), exit non-zero, or exit 0 with a well-formed or a
\* malformed line on stdout.
Stdouts ==
    { [ wellformed |-> w, deg |-> d, tenth |-> x ] :
      w \in BOOLEAN, d \in Temps, x \in {0, 5} }

Primaries ==
    { [ kind |-> k, out |-> o ] :
      k \in {"launch_error", "timeout", "nonzero", "exit0"}, o \in Stdouts }

\* /sys/class/thermal/thermal_zone0/temp: unreadable (open or int() raises),
\* or an integer of millidegrees
Fallbacks ==
    { [ readable |-> r, m |-> d * 1000 + x ] :
      r \in BOOLEAN, d \in Temps, x \in {0, 500} }

\* lines 71-95
get_pi_temperature(primary, fallback) ==
    IF primary.kind \in {"launch_error", "timeout"}
    THEN None                                   \* raised inside the try
    ELSE IF primary.kind = "exit0"
    THEN IF primary.out.wellformed THEN from_stdout(primary.out) ELSE None
    ELSE IF fallback.readable THEN from_millic(fallback.m) ELSE None

\* line 264: one call of get_pi_temperature()
ReadTemperature ==
    /\ \E primary \in Primaries, fallback \in Fallbacks :
          last' = [ act |-> "read", primary |-> primary, fallback |-> fallback,
                    temp |-> get_pi_temperature(primary, fallback) ]
    /\ UNCHANGED << pc, now, supVars, hist, samples, alertVars, ctfd >>

SpecProbe == FirstRun /\ [][ReadTemperature]_vars


(* ---------------- scenario runs ---------------------------------------- *)
\* Scenario A's samples
ScenarioA == << 70, 86, 87, 91 >>

\* per position, Scenario A's sample and other samples of the same range
ScenarioSamples ==
    << { ScenarioA[1], TEMP_RESUME_THRESHOLD, TEMP_ALERT_THRESHOLD - 1 },
       { ScenarioA[2], TEMP_ALERT_THRESHOLD, TEMP_KILL_THRESHOLD - 1 },
       { ScenarioA[3], TEMP_ALERT_THRESHOLD, TEMP_KILL_THRESHOLD - 1 },
       { ScenarioA[4], TEMP_KILL_THRESHOLD, TEMP_KILL_THRESHOLD + 5 } >>

\* send_alert has returned; every OS call of the code after it succeeds
ResumeOk ==
    /\ pc = "resume"
    /\ sa.ret # "stop"
    /\ LET in == AllOk(NoTemp) IN Resumed(resume(Suspended, in), in)
    /\ UNCHANGED << samples, ctfd >>

\* the next sample of the scenario; every OS call succeeds and the iteration
\* lasts CHECK_INTERVAL
ScenarioTick ==
    /\ pc = "loop"
    /\ samples < Len(ScenarioSamples)
    /\ samples' = samples + 1
    /\ \E t \in ScenarioSamples[samples + 1] :
          LET in == AllOk(t) IN Begun(begin(Globals, in), in)
    /\ UNCHANGED ctfd

NextScenario ==
    Startup \/ AlertPostFew \/ AlertSleep \/ ResumeOk \/ ScenarioTick

SpecScenario == Init /\ [][NextScenario]_vars

(* ---------------- runs of failing reads -------------------------------- *)
\* the read fails or gives a cool, a moderate, a hot or a critical sample;
\* every OS call succeeds
SensorInputs ==
    { AllOk(t) : t \in { NoTemp, TEMP_RESUME_THRESHOLD - 1,
                         TEMP_RESUME_THRESHOLD, TEMP_ALERT_THRESHOLD,
                         TEMP_KILL_THRESHOLD } }

SensorTick ==
    /\ pc = "loop"
    /\ samples < MaxReads
    /\ samples' = samples + 1
    /\ \E in \in SensorInputs : Begun(begin(Globals, in), in)
    /\ UNCHANGED ctfd

NextSensor ==
    Startup \/ AlertPostFew \/ AlertSleep \/ ResumeOk \/ SensorTick \/ WorkerExit

SpecSensor == Init /\ [][NextSensor]_vars

(* ---------------- send_alert with every outcome of every POST ---------- *)
\* the launch or the renice of a piece may fail; every other OS call succeeds
AlertInputs ==
    { [ AllOk(t) EXCEPT !.launch = o, !.renice = o ] :
      t \in Temps, o \in BOOLEAN }

ResumeAlert ==
    /\ pc = "resume"
    /\ sa.ret # "stop"
    /\ \E in \in AlertInputs : Resumed(resume(Suspended, in), in)
    /\ UNCHANGED << samples, ctfd >>

\* line 264: the loop takes its next sample and runs up to the first await
\* of the iteration or to its sleep
TakeSample ==
    /\ pc = "loop"
    /\ samples < MaxAlertSamples
    /\ samples' = samples + 1
    /\ \E in \in AlertInputs : Begun(begin(Globals, in), in)
    /\ UNCHANGED ctfd

NextAlert ==
    Startup \/ AlertPost \/ AlertSleep \/ ResumeAlert \/ TakeSample \/ WorkerExit

SpecAlert == Init /\ [][NextAlert]_vars

(* ======================================================================= *)
(* bot.py: the scoreboard parser                                           *)
(* ======================================================================= *)
\* A string as what the parser can tell about it: its text in lower case
\* without surrounding whitespace, whether it has upper-case letters, whether
\* it has surrounding whitespace.
Str(text, upper, pad) == [ text |-> text, upper |-> upper, pad |-> pad ]

\* str.lower() and str.strip()
lower(n) == [ n EXCEPT !.upper = FALSE ]

strip(n) == [ n EXCEPT !.pad = FALSE ]

\* a value of a JSON object's key: missing (dict.get gives None) or a string
absent == [ present |-> FALSE, n |-> Str("", FALSE, FALSE) ]

given(n) == [ present |-> TRUE, n |-> n ]

\* Python's truth value: None and "" are false, " " is true
truthy(v) == v.present /\ ~(v.n.text = "" /\ ~v.n.pad)

\* bot.py lines 27-28
MY_TEAM == Str("pesu2", TRUE, FALSE)

RIVAL_TEAM == Str("pesu1", TRUE, FALSE)

\* lines 147-150: lower-cased name -> name as configured
targets(my_team, rival_team) ==
    [ k \in { lower(my_team), lower(rival_team) } |->
        IF k = lower(rival_team) THEN rival_team ELSE my_team ]

\* reproduce_issue.py lines 21-24: only entry.team.name is looked at
raw_name_original(entry) ==
    LET team_name == IF entry.team.present THEN entry.team.name ELSE absent
    IN lower(strip(IF team_name.present THEN team_name.n ELSE absent.n))

\* lines 160-163: the key an entry is looked up by
raw_name(entry) ==
    LET team_name == IF entry.team.present THEN entry.team.name ELSE absent
        raw == IF truthy(team_name) THEN team_name ELSE entry.name
    IN lower(IF truthy(raw) THEN strip(raw.n) ELSE absent.n)

\* lines 167-168; 0 stands for a missing (or zero) pos or rank
info(entry) ==
    [ rank |-> IF entry.pos # 0 THEN entry.pos ELSE entry.rank,
      score |-> entry.score ]

\* lines 165-169: result[targets[key]] = {...}
record_entry(result, tg, entry) ==
    LET key == raw_name(entry) IN
    IF key \in DOMAIN tg
    THEN [ team \in DOMAIN result \cup { tg[key] } |->
             IF team = tg[key] THEN info(entry) ELSE result[team] ]
    ELSE result

RECURSIVE scan_entries(_, _, _, _)
\* lines 159-169: the page's entries from index i on
scan_entries(result, tg, entries, i) ==
    IF i > Len(entries) THEN result
    ELSE scan_entries(record_entry(result, tg, entries[i]), tg, entries, i + 1)

RECURSIVE scan_pages(_, _, _, _)
\* lines 152-173: pages from `page` on; a page past the last one comes back
\* empty
scan_pages(result, tg, pages, page) ==
    IF page > MAX_PAGES THEN result
    ELSE LET entries == IF page <= Len(pages) THEN pages[page] ELSE << >> IN
         IF entries = << >> THEN result
         ELSE LET r == scan_entries(result, tg, entries, 1) IN
              IF Cardinality(DOMAIN r) = Cardinality(DOMAIN tg) THEN r
              ELSE scan_pages(r, tg, pages, page + 1)

\* lines 144-175
extract_team_positions(my_team, rival_team, pages) ==
    scan_pages(<< >>, targets(my_team, rival_team), pages, 1)

\* reproduce_issue.py lines 4-10
MOCK_API_RESPONSE ==
    << [ team |-> [ present |-> FALSE, name |-> absent ],
         name |-> given(RIVAL_TEAM), pos |-> 5, rank |-> 0, score |-> 660 ],
       [ team |-> [ present |-> FALSE, name |-> absent ],
         name |-> given(MY_TEAM), pos |-> 13, rank |-> 0, score |-> 660 ] >>

\* what a scoreboard entry may hold under team.name and under name
NameValues ==
    { absent, given(Str("", FALSE, FALSE)),
      given(RIVAL_TEAM), given(Str("pesu1", FALSE, TRUE)),
      given(MY_TEAM), given(Str("pesu2", FALSE, TRUE)),
      given(Str("other", TRUE, FALSE)) }

TeamValues ==
    { [ present |-> FALSE, name |-> absent ] }
        \cup { [ present |-> TRUE, name |-> v ] :
               v \in { absent, given(Str("", FALSE, FALSE)), given(RIVAL_TEAM),
                       given(Str("other", TRUE, FALSE)) } }

\* the entry at place i of the scoreboard, its place given as pos or as rank
Entries(i) ==
    { [ team |-> tm, name |-> nm,
        pos |-> IF has_pos THEN i ELSE 0,
        rank |-> IF has_pos THEN 0 ELSE i,
        score |-> 660 - i ] :
      tm \in TeamValues, nm \in NameValues, has_pos \in BOOLEAN }

\* scoreboards of one or two entries on one page or on two, and the mock
Scoreboards ==
    { << << e >> >> : e \in Entries(1) }
        \cup { << << e1, e2 >> >> : e1 \in Entries(1), e2 \in Entries(2) }
        \cup { << << e1 >>, << e2 >> >> : e1 \in Entries(1), e2 \in Entries(2) }
        \cup { << MOCK_API_RESPONSE >> }

\* line 256: one call of extract_team_positions(MY_TEAM, RIVAL_TEAM)
ExtractTeamPositions ==
    /\ ctfd.act = "init"
    /\ \E pages \in Scoreboards :
          ctfd' = [ act |-> "extract", pages |-> pages,
                    positions |-> extract_team_positions(MY_TEAM, RIVAL_TEAM,
                                                         pages) ]
    /\ UNCHANGED << pc, now, supVars, last, hist, samples, alertVars >>

SpecScoreboard == FirstRun /\ [][ExtractTeamPositions]_vars

(* ======================================================================= *)
(* bot.py: the monitor task                                                *)
(* ======================================================================= *)
\* challenge names the site may list
ChallengeNames == { "c1", "c2" }

\* runs of the monitor task that are followed
MaxRuns == 3

\* hashlib.sha256 of the content: equal digests for equal contents only
hash_content(text) == << "sha256", text >>

\* the challenge page before anything is listed
no_page == [ names |-> {}, rev |-> 0 ]

\* lines 58-65 and 70-78: what load_snapshot() gives while the snapshot file
\* does not exist or cannot be parsed
empty_snapshot ==
    [ has_hash |-> FALSE, hash |-> hash_content(no_page), challenges |-> {} ]

\* no send_embed call is under way
no_embed == [ kind |-> "none", ch |-> 1, step |-> "idle" ]

\* lines 242-247: the challenges of the page that the snapshot does not know
new_challenges(snapshot, page) ==
    IF ~snapshot.has_hash \/ hash_content(page) # snapshot.hash
    THEN page.names \ snapshot.challenges
    ELSE {}

\* how save_snapshot ends: written; open(..., "w") raises; open has emptied
\* the file and json.dump raises
SaveOutcomes == { "ok", "raised", "truncated" }

\* Inputs of a piece of a run.  ok: the awaited call returns (it raises
\* otherwise); remote, solves, status: the remote scenario page, the solved
\* list, the scoreboard positions differ from the snapshot's; save: how
\* save_snapshot ends; again: the task loop goes on after an exception has
\* left the task.
MonitorInputs ==
    [ ok : BOOLEAN, remote : BOOLEAN, solves : BOOLEAN, status : BOOLEAN,
      save : SaveOutcomes, again : BOOLEAN ]

\* line 206: send_embed is called
call_embed(c, kind) ==
    [ c EXCEPT !.at = "embed",
               !.embed = [ kind |-> kind, ch |-> 1, step |-> "fetch" ] ]

\* the run is over; its locals are gone
run_ended(c) ==
    [ c EXCEPT !.at = "idle", !.loaded = empty_snapshot, !.page = no_page,
               !.new = {}, !.told = FALSE, !.embed = no_embed, !.pageno = 0 ]

\* lines 331-337: `except Exception` of the run; the error embed is sent
monitor_error(c, where) ==
    call_embed([ c EXCEPT !.failed = where ], "error")

\* lines 318-329 with save_snapshot (lines 80-82)
save_snapshot(c, in) ==
    IF in.save = "ok"
    THEN run_ended([ c EXCEPT !.snapshot =
                                 [ has_hash |-> TRUE,
                                   hash |-> hash_content(c.page),
                                   challenges |-> c.page.names ] ])
    ELSE monitor_error([ c EXCEPT !.snapshot =
                                     IF in.save = "truncated"
                                     THEN empty_snapshot ELSE @ ], "save")

\* lines 287-316: the status embed when the positions have changed
status_embed(c, in) ==
    IF in.status THEN call_embed(c, "status") ELSE save_snapshot(c, in)

\* lines 281-283: the new-solve embed
solve_embed(c, in) ==
    IF in.solves THEN call_embed(c, "solve") ELSE status_embed(c, in)

\* lines 277-279: the new-challenge embed
challenge_embed(c, in) ==
    IF c.new # {} THEN call_embed(c, "new") ELSE solve_embed(c, in)

\* lines 263-273: check_remote_scenario has returned (it raises nothing)
remote_embed(c, in) ==
    IF in.remote THEN call_embed(c, "remote") ELSE challenge_embed(c, in)

\* send_embed has returned: the code that follows the call
after_embed(c, in) ==
    CASE c.embed.kind = "remote" -> challenge_embed(c, in)
      [] c.embed.kind = "new" -> solve_embed(c, in)
      [] c.embed.kind = "solve" -> status_embed(c, in)
      [] c.embed.kind = "status" -> save_snapshot(c, in)
      [] c.embed.kind = "error" -> run_ended(c)

\* line 207's `for`: on to the next channel, or send_embed returns
embed_next(c, in) ==
    IF c.embed.ch < NumChannels
    THEN [ c EXCEPT !.embed.ch = @ + 1, !.embed.step = "fetch" ]
    ELSE after_embed(c, in)

\* a channel has got the new-challenge embed: the challenges it names count as
\* announced in this run
told_channel(c) ==
    IF c.embed.kind = "new" /\ ~c.told
    THEN [ c EXCEPT !.told = TRUE,
                    !.announced = [ ch \in ChallengeNames |->
                                      IF ch \in c.new THEN @[ch] + 1
                                      ELSE @[ch] ] ]
    ELSE c

\* line 223: channel.send has returned or raised; an exception leaves
\* send_embed, and in the `except` branch of the run it leaves the task
after_send(c, in) ==
    IF in.ok THEN embed_next(told_channel(c), in)
    ELSE IF c.embed.kind = "error"
         THEN [ run_ended(c) EXCEPT !.running = in.again ]
         ELSE monitor_error(c, "send")

\* line 367: on_ready starts the task; no snapshot file yet
MonitorStart ==
    /\ ctfd.act = "init"
    /\ ctfd' = [ act |-> "monitor", running |-> TRUE, runs |-> 0,
                 site |-> no_page, snapshot |-> empty_snapshot,
                 at |-> "idle", loaded |-> empty_snapshot, page |-> no_page,
                 new |-> {}, told |-> FALSE, embed |-> no_embed,
                 pageno |-> 0, failed |-> "none",
                 announced |-> [ ch \in ChallengeNames |-> 0 ] ]
    /\ UNCHANGED << pc, now, supVars, last, hist, samples, alertVars >>

\* the organisers release a challenge; released challenges stay listed
ReleaseChallenge ==
    /\ ctfd.act = "monitor"
    /\ \E ch \in ChallengeNames \ ctfd.site.names :
          ctfd' = [ ctfd EXCEPT !.site.names = @ \cup { ch } ]
    /\ UNCHANGED << pc, now, supVars, last, hist, samples, alertVars >>

\* something else on the challenge page changes (solve counts, values)
PageChange ==
    /\ ctfd.act = "monitor"
    /\ ctfd.site.rev = 0
    /\ ctfd' = [ ctfd EXCEPT !.site.rev = 1 ]
    /\ UNCHANGED << pc, now, supVars, last, hist, samples, alertVars >>

\* lines 228-236: the task runs every CHECK_INTERVAL seconds; it loads the
\* snapshot and awaits fetch_challenges
MonitorBegin ==
    /\ ctfd.act = "monitor"
    /\ ctfd.running
    /\ ctfd.at = "idle"
    /\ ctfd.runs < MaxRuns
    /\ ctfd' = [ ctfd EXCEPT !.runs = @ + 1, !.at = "challenges",
                             !.loaded = ctfd.snapshot, !.failed = "none" ]
    /\ UNCHANGED << pc, now, supVars, last, hist, samples, alertVars >>

\* lines 236-256: fetch_challenges has returned the page as it is now, or has
\* raised; the changes are detected and the scoreboard's first page is awaited
MonitorChallenges ==
    /\ ctfd.act = "monitor"
    /\ ctfd.at = "challenges"
    /\ \E ok \in BOOLEAN :
          ctfd' = IF ok
                  THEN [ ctfd EXCEPT !.page = ctfd.site,
                                     !.new = new_challenges(ctfd.loaded, ctfd.site),
                                     !.at = "scoreboard", !.pageno = 1 ]
                  ELSE monitor_error(ctfd, "challenges")
    /\ UNCHANGED << pc, now, supVars, last, hist, samples, alertVars >>

\* lines 152-174 inside line 256: a page of the scoreboard has arrived and
\* the next one is awaited; or it was the last one (no entries, both teams
\* found, MAX_PAGES) and check_remote_scenario is awaited; or the fetch raised
MonitorScoreboard ==
    /\ ctfd.act = "monitor"
    /\ ctfd.at = "scoreboard"
    /\ \E outcome \in { "more", "last", "raised" } :
          ctfd' = IF outcome = "raised"
                  THEN monitor_error(ctfd, "scoreboard")
                  ELSE IF outcome = "more" /\ ctfd.pageno < MAX_PAGES
                  THEN [ ctfd EXCEPT !.pageno = @ + 1 ]
                  ELSE [ ctfd EXCEPT !.at = "remote", !.pageno = 0 ]
    /\ UNCHANGED << pc, now, supVars, last, hist, samples, alertVars >>

\* lines 262-329 up to the first send_embed, or to the end of the run
MonitorRemote ==
    /\ ctfd.act = "monitor"
    /\ ctfd.at = "remote"
    /\ \E in \in MonitorInputs : ctfd' = remote_embed(ctfd, in)
    /\ UNCHANGED << pc, now, supVars, last, hist, samples, alertVars >>

\* lines 208-212: fetch_channel has returned the channel, or has raised and
\* the channel is skipped
EmbedFetch ==
    /\ ctfd.act = "monitor"
    /\ ctfd.at = "embed"
    /\ ctfd.embed.step = "fetch"
    /\ \E in \in MonitorInputs :
          ctfd' = IF in.ok THEN [ ctfd EXCEPT !.embed.step = "send" ]
                  ELSE embed_next(ctfd, in)
    /\ UNCHANGED << pc, now, supVars, last, hist, samples, alertVars >>

\* lines 214-223: channel.send has returned or raised
EmbedSend ==
    /\ ctfd.act = "monitor"
    /\ ctfd.at = "embed"
    /\ ctfd.embed.step = "send"
    /\ \E in \in MonitorInputs : ctfd' = after_send(ctfd, in)
    /\ UNCHANGED << pc, now, supVars, last, hist, samples, alertVars >>

NextMonitor ==
    \/ MonitorStart \/ ReleaseChallenge \/ PageChange \/ MonitorBegin
    \/ MonitorChallenges \/ MonitorScoreboard \/ MonitorRemote
    \/ EmbedFetch \/ EmbedSend

SpecMonitor == FirstRun /\ [][NextMonitor]_vars

(* ======================================================================= *)
(* Claims                                                                  *)
(* ======================================================================= *)
AfterTick == last.act = "tick" /\ last.temp # NoTemp

InBand(t) ==
    t # NoTemp /\ t >= TEMP_RESUME_THRESHOLD /\ t < TEMP_ALERT_THRESHOLD

Called(f) == \E i \in DOMAIN last.calls : last.calls[i] = f

\* C1: a sample >= TEMP_KILL_THRESHOLD leaves the supervisor Stopped (no live
\* worker) at the end of that tick, from every state.
C1_KillSampleStops ==
    (AfterTick /\ last.temp >= TEMP_KILL_THRESHOLD) => State = "Stopped"

\* C2: at most one worker process launched by the supervisor is alive at any
\* time.
C2_AtMostOneWorker == workers <= 1

\* a worker was launched in a tick after an earlier worker had been throttled
\* and had gone
C2_Witness ==
    /\ last.act = "tick"
    /\ last.launches = 1
    /\ THROTTLE_START_TIME # 0
    /\ workers = 1

\* C3: the supervisor becomes Running (other than at startup) only in a tick
\* whose sample is strictly below TEMP_RESUME_THRESHOLD, and a sample in the
\* band keeps a Throttled supervisor Throttled.
C3_Hysteresis ==
    [][ /\ (State # "Running" /\ State' = "Running" /\ last'.act # "startup")
            => (last'.act = "tick" /\ last'.temp # NoTemp
                /\ last'.temp < TEMP_RESUME_THRESHOLD)
        /\ (State = "Throttled" /\ last'.act = "tick" /\ InBand(last'.temp))
            => State' = "Throttled" ]_vars

\* a Throttled supervisor has just processed the sample TEMP_RESUME_THRESHOLD
C3_Witness ==
    /\ AfterTick
    /\ last.from = "Throttled"
    /\ last.temp = TEMP_RESUME_THRESHOLD
    /\ State = "Throttled"

\* C4: a tick whose sample is in the band changes neither the worker handle,
\* the pid, the throttled flag, the throttle start time, the restart counter
\* nor the state file, calls no lifecycle operation and sends no alert.
C4_BandIsNoOp ==
    [][ (last'.act = "tick" /\ InBand(last'.temp))
            => /\ UNCHANGED << BOT_PROCESS, BOT_PID, IS_THROTTLED,
                               THROTTLE_START_TIME, RESTART_ATTEMPTS,
                               state_file, workers >>
               /\ last'.calls = << >>
               /\ last'.alerts = << >>
               /\ last'.launches = 0 ]_vars

\* band samples have been processed in Running after an overheating alert
\* (throttle failed) and in Throttled
C4_Witness ==
    /\ AfterTick
    /\ last.temp = TEMP_ALERT_THRESHOLD - 1
    /\ last.from \in {"Throttled", "Running"}
    /\ overheating_alerted
    /\ state_file # "absent"

\* C5: in Throttled with TEMP_ALERT_THRESHOLD <= T < TEMP_KILL_THRESHOLD the
\* worker is force-stopped and the state becomes Stopped exactly at the ticks
\* where now - THROTTLE_START_TIME >= THROTTLE_DURATION, equality included
\* (episodes whose samples were all in that range).
C5_EscalatesAtDuration ==
    (/\ AfterTick
     /\ last.from = "Throttled"
     /\ last.temp >= TEMP_ALERT_THRESHOLD
     /\ last.temp < TEMP_KILL_THRESHOLD
     /\ hist.hot_run)
        => ((last.time_throttled >= THROTTLE_DURATION)
                <=> (Called("stop_bot") /\ State = "Stopped"))

\* C6: the third consecutive failed start sends the fatal alert, and no start
\* is attempted after three consecutive failed starts.
C6_BoundedRestart ==
    /\ (last.act \in {"tick", "startup"} /\ last.launches = 1
        /\ hist.failed_starts = MAX_RESTART_ATTEMPTS)
            => Count(last.alerts, "fatal") = 1
    /\ hist.failed_starts <= MAX_RESTART_ATTEMPTS

\* C9: a tick that takes the supervisor from Running to Throttled sends exactly
\* one throttle (overheating) alert, and a tick that starts and ends Throttled
\* sends none.
C9_ThrottleAlertOncePerEntry ==
    /\ (AfterTick /\ last.from = "Running" /\ State = "Throttled")
            => Count(last.alerts, "overheating") = 1
    /\ (AfterTick /\ last.from = "Throttled" /\ State = "Throttled")
            => Count(last.alerts, "overheating") = 0

\* C10: between two entries into Throttled at most one kill alert is sent.
C10_OneKillAlertPerEpisode == hist.kill_alerts <= 1

\* C7: while a send_alert awaited inside a loop iteration is posting or
\* sleeping between retries, the loop can take its next sample.
C7_SamplingNotDelayed ==
    (/\ sa.pc \in {"post", "sleep"}
     /\ sa.ret # "start_bot"
     /\ samples < MaxAlertSamples) => ENABLED TakeSample

\* C8: one send_alert call posts at most max_retries times to each channel,
\* never again after a 200/204 on it, never raises, and sleeps only when another
\* attempt on the same channel is left.
C8_BoundedDelivery ==
    /\ \A c \in Channels : attempts[c] <= max_retries
    /\ \A c \in Channels : delivered[c] # 0 => attempts[c] = delivered[c]
    /\ sa.pc \in {"idle", "post", "sleep"}
    /\ sa.pc \in {"post", "sleep"}
            => (sa.retry_count < max_retries /\ attempts[sa.ch] = sa.retry_count)
    /\ sa.pc = "idle" => pc # "await"

\* send_alert has returned to its caller after three failed posts to the first
\* channel and a success at the second attempt on the second channel
C8_Witness ==
    /\ pc = "resume"
    /\ sa.pc = "idle"
    /\ attempts[1] = max_retries
    /\ delivered[1] = 0
    /\ attempts[2] = 2
    /\ delivered[2] = 2

\* C11: THROTTLE_START_TIME is set exactly when the supervisor is Throttled: it
\* is recorded on entering Throttled and cleared on every exit from it.
C11_WindowIffThrottled ==
    (THROTTLE_START_TIME # 0) <=> (State = "Throttled")

\* the record that stands for a supervisor state: bot_running iff a worker is
\* running, throttled iff the supervisor is Throttled
PersistedFor(st) ==
    IF st = "Running" THEN "running"
    ELSE IF st = "Throttled" THEN "throttled"
    ELSE "stopped"

\* C12: with every write succeeding, at the end of every tick the state file
\* holds the supervisor's current state, also after the worker has stopped
\* running for whatever reason.
C12_StoreMatchesState ==
    last.act = "tick" => load_state(state_file) = PersistedFor(State)

\* C13: in any single sample tick send_alert is invoked at most once.
C13_AtMostOneAlert ==
    last.act = "tick" => Len(last.alerts) <= 1

\* the piece of the coroutine that runs next from the current state
NextPiece(in) ==
    IF pc = "loop" THEN begin(Globals, in)
    ELSE IF pc = "resume" THEN resume(Suspended, in)
    ELSE Globals

\* C14: a piece in which save_state fails ends with the worker handle, the
\* pid, the throttled flag, the throttle start time and the restart counter
\* exactly as the same piece would leave them had the write succeeded, with
\* the same lifecycle calls and alerts, and the coroutine goes on at the same
\* place.
C14_WriteFailureIgnored ==
    \A in \in InputsEnv :
       LET s == NextPiece(in)
           t == NextPiece([ in EXCEPT !.write = "ok" ])
       IN /\ s.BOT_PROCESS = t.BOT_PROCESS
          /\ s.BOT_PID = t.BOT_PID
          /\ s.IS_THROTTLED = t.IS_THROTTLED
          /\ s.THROTTLE_START_TIME = t.THROTTLE_START_TIME
          /\ s.RESTART_ATTEMPTS = t.RESTART_ATTEMPTS
          /\ s.workers = t.workers
          /\ s.calls = t.calls
          /\ s.alerts = t.alerts
          /\ s.at = t.at

\* a Running supervisor has throttled its worker in a tick whose state-file
\* write failed
C14_Witness ==
    /\ AfterTick
    /\ last.io.write = "raised"
    /\ last.from = "Running"
    /\ State = "Throttled"
    /\ THROTTLE_START_TIME # 0
    /\ state_file # "throttled"

\* C16: a tick whose temperature read failed leaves the worker, the pid, the
\* throttled flag, the throttle start time, the restart counter and the state
\* file unchanged in every step it takes (up to the sensor alert, while the
\* alert is sent, and after it), calls no lifecycle operation, and ends at the
\* top of the loop, where the next sample is taken.
C16_FailedReadSkipsTick ==
    [][ (/\ last'.temp = NoTemp
         /\ \/ last'.act = "tick"
            \/ last'.act = "await" /\ sa'.ret = "reset_errors")
            => /\ UNCHANGED << BOT_PROCESS, BOT_PID, IS_THROTTLED,
                               THROTTLE_START_TIME, RESTART_ATTEMPTS,
                               state_file, workers >>
               /\ last'.calls = << >>
               /\ last'.launches = 0
               /\ last'.io = no_io
               /\ Len(last'.alerts) = Count(last'.alerts, "sensor_error")
               /\ IF last'.act = "tick" THEN pc' = "loop"
                  ELSE pc' \in {"await", "resume"} ]_vars

\* the read has failed for the fifth time in a row while the worker was
\* throttled: the sensor alert has been sent and the tick has ended
C16_Witness ==
    /\ last.act = "tick"
    /\ last.temp = NoTemp
    /\ last.from = "Throttled"
    /\ State = "Throttled"
    /\ last.alerts = << "sensor_error" >>
    /\ hist.failed_reads = SENSOR_ERROR_LIMIT
    /\ consecutive_errors = 0

\* C15: once the shutdown request has been handled (and the stop signal could
\* be sent), the loop has exited, no worker is running, exactly one shutdown
\* alert has been sent, and the state file holds
\* {bot_running: false, throttled: false}.
C15_ShutdownIsFinal ==
    (pc = "done" /\ last.io.signal # "raised")
        => /\ State = "Stopped"
           /\ Count(last.alerts, "stopped") = 1
           /\ load_state(state_file) = "stopped"

\* C17: whenever the primary command fails (cannot be launched, runs over its
\* timeout, or exits non-zero) and the fallback file holds a readable integer
\* m, the read returns m/1000 and not an error.
C17_FallbackOnAnyFailure ==
    (/\ last.act = "read"
     /\ last.primary.kind \in {"launch_error", "timeout", "nonzero"}
     /\ last.fallback.readable)
        => last.temp = from_millic(last.fallback.m)

\* C18: with every worker operation succeeding and samples at the configured
\* interval, Scenario A's samples [70, 86, 87, 91] (and any samples of the same
\* ranges) give the states [Running, Throttled, Throttled, Stopped] after the
\* respective ticks, with a kill alert at the fourth sample and at no other.
C18_ScenarioA ==
    last.act = "tick"
        => /\ State = << "Running", "Throttled", "Throttled", "Stopped" >>[samples]
           /\ Count(last.alerts, "killed") = << 0, 0, 0, 1 >>[samples]

\* Scenario A itself has been run to its end
C18_Witness ==
    /\ last.act = "tick"
    /\ samples = Len(ScenarioA)
    /\ last.temp = ScenarioA[Len(ScenarioA)]
    /\ now = StartClock + Len(ScenarioA) * CHECK_INTERVAL
    /\ State = "Stopped"
    /\ hist.kill_alerts = 1

\* C19: a tick that starts in Stopped with a sample below
\* TEMP_RESUME_THRESHOLD and whose launch succeeds ends Running, not throttled,
\* with one worker and RESTART_ATTEMPTS = 0 whatever it was before; if the
\* launch fails the supervisor is still Stopped with no worker.
C19_ResumeFromStopped ==
    (AfterTick /\ last.from = "Stopped" /\ is_cooled(last.temp))
        => /\ last.io.popen = "ok"
                => (/\ State = "Running"
                    /\ ~IS_THROTTLED
                    /\ RESTART_ATTEMPTS = 0
                    /\ workers = 1
                    /\ last.launches = 1)
           /\ last.io.popen = "raised"
                => (State = "Stopped" /\ workers = 0)

\* the worker has been started in a cool tick after two failed launches
C19_Witness ==
    /\ AfterTick
    /\ last.from = "Stopped"
    /\ last.temp = TEMP_RESUME_THRESHOLD - 1
    /\ last.io.popen = "ok"
    /\ last.restarts = MAX_RESTART_ATTEMPTS - 1
    /\ State = "Running"
    /\ RESTART_ATTEMPTS = 0

\* C20: from its call to its return, whatever the outcome of each POST and
\* however many retries, send_alert changes neither the worker handle, the
\* pid, the throttled flag, the throttle start time, the restart counter nor
\* the state file (nor any other variable of the supervisor).
C20_NotifierIsolation ==
    [][ (pc = "await" /\ sa' # sa) => UNCHANGED supVars ]_vars

\* a send_alert called from the loop is about to make its third attempt on the
\* second channel while a worker runs, the first channel having been given up
C20_Witness ==
    /\ pc = "await"
    /\ sa.ret = "hot"
    /\ sa.pc = "post"
    /\ sa.ch = NumChannels
    /\ sa.retry_count = max_retries - 1
    /\ attempts[1] = max_retries
    /\ BOT_PROCESS = "alive"
    /\ state_file = "running"

\* the entries of all pages, in order
RECURSIVE Flatten(_)
Flatten(pages) ==
    IF pages = << >> THEN << >> ELSE Head(pages) \o Flatten(Tail(pages))

\* the value names team t, compared case-insensitively after trimming
Names(v, t) == v.present /\ v.n.text = t.text /\ v.n.text # ""

\* entry.team.name is given (a non-empty string)
HasTeamName(e) ==
    e.team.present /\ e.team.name.present
        /\ ~(e.team.name.n.text = "" /\ ~e.team.name.n.pad)

\* the entry lists team t: under team.name, or under name when team.name is
\* not given
Lists(e, t) ==
    IF HasTeamName(e) THEN Names(e.team.name, t) ELSE Names(e.name, t)

\* C21: every target team that a scoreboard entry lists under entry.team.name
\* or, without a team name, under entry.name (case and surrounding whitespace
\* aside) is in the result with the rank and the score of an entry that lists
\* it; two entries in the top-level form naming both teams give both.
C21_TeamMatching ==
    ctfd.act = "extract"
        => LET es == Flatten(ctfd.pages) IN
           \A t \in { MY_TEAM, RIVAL_TEAM } :
              (\E i \in DOMAIN es : Lists(es[i], t))
                 => /\ t \in DOMAIN ctfd.positions
                    /\ \E i \in DOMAIN es :
                          /\ Lists(es[i], t)
                          /\ ctfd.positions[t].score = es[i].score
                          /\ ctfd.positions[t].rank
                                = (IF es[i].pos # 0 THEN es[i].pos ELSE es[i].rank)

\* the scoreboard of reproduce_issue.py has been parsed: both teams found
C21_Witness ==
    /\ ctfd.act = "extract"
    /\ ctfd.pages = << MOCK_API_RESPONSE >>
    /\ DOMAIN ctfd.positions = { MY_TEAM, RIVAL_TEAM }
    /\ ctfd.positions[MY_TEAM] = [ rank |-> 13, score |-> 660 ]
    /\ ctfd.positions[RIVAL_TEAM] = [ rank |-> 5, score |-> 660 ]

\* C22: a worker is launched only in a tick whose sample is strictly below
\* TEMP_RESUME_THRESHOLD, so no worker runs before such a sample has been
\* taken (in particular before the first sample).
C22_LaunchOnlyWhenCool ==
    /\ (last.act \in {"startup", "tick"} /\ last.io.popen = "ok")
            => (last.act = "tick" /\ last.temp # NoTemp /\ is_cooled(last.temp))
    /\ samples = 0 => workers = 0

\* C23 as stated, its last part: when stop_bot has sent its signals without a
\* failure, the worker process is gone (dead) on return, with the pid cleared
\* and the throttled flag off.
C23_WorkerDeadOnReturn ==
    (last.act \in {"tick", "shutdown"} /\ last.io.signal = "ok")
        => /\ workers = 0
           /\ BOT_PROCESS = "exited"
           /\ BOT_PID = "None"
           /\ ~IS_THROTTLED

\* C23: a stop_bot call on a running worker whose signal calls do not fail
\* sends, when graceful, terminate and then, only if the worker has not exited
\* within the wait, kill; when forced, kill alone with no terminate and no
\* wait; in both cases it returns with the pid cleared and the throttled flag
\* off, and with the worker either exited (seen by the wait) or sent the kill
\* signal, whose effect is not waited for.
C23_StopProtocol ==
    (last.act \in {"tick", "shutdown"} /\ last.io.signal = "ok")
        => /\ last.act = "shutdown"
                => /\ last.io.wait \in {"exited", "timeout"}
                   /\ last.io.signals =
                        (IF last.io.wait = "timeout"
                         THEN << "terminate", "wait", "kill" >>
                         ELSE << "terminate", "wait" >>)
                   /\ last.io.wait = "exited" => BOT_PROCESS = "exited"
           /\ last.act = "tick"
                => (last.io.signals = << "kill" >> /\ last.io.wait = "none")
           /\ State = "Stopped"
           /\ BOT_PROCESS \in {"killed", "exited"}
           /\ BOT_PID = "None"
           /\ ~IS_THROTTLED

\* a throttled worker did not exit within the wait of a graceful stop and was
\* killed
C23_Witness ==
    /\ last.act = "shutdown"
    /\ last.from = "Throttled"
    /\ last.io.signals = << "terminate", "wait", "kill" >>
    /\ BOT_PROCESS = "killed"
    /\ BOT_PID = "None"

\* C24: a tick that starts in Stopped with a sample in
\* [TEMP_ALERT_THRESHOLD, TEMP_KILL_THRESHOLD) ends in Stopped, having called
\* no lifecycle operation, written nothing to the state file and sent no alert.
C24_StoppedHotIsNoOp ==
    (/\ AfterTick
     /\ last.from = "Stopped"
     /\ is_overheating(last.temp)
     /\ last.temp < TEMP_KILL_THRESHOLD)
        => /\ State = "Stopped"
           /\ last.calls = << >>
           /\ last.io.write = "none"
           /\ last.alerts = << >>

\* C25: a tick sends the sensor alert exactly when its read failed and the
\* number of failed reads in a row has reached a multiple of 5; the count
\* restarts from 0 after the alert and any successful read sets it to 0; so N
\* failed reads in a row have produced N \div 5 sensor alerts, none for N < 5.
C25_SensorAlertEveryFifth ==
    last.act = "tick"
        => /\ (Count(last.alerts, "sensor_error") = 1)
                <=> (/\ last.temp = NoTemp
                     /\ hist.failed_reads > 0
                     /\ hist.failed_reads % SENSOR_ERROR_LIMIT = 0)
           /\ Count(last.alerts, "sensor_error") <= 1
           /\ consecutive_errors = hist.failed_reads % SENSOR_ERROR_LIMIT
           /\ last.temp # NoTemp => consecutive_errors = 0
           /\ hist.sensor_alerts = hist.failed_reads \div SENSOR_ERROR_LIMIT

\* the tenth failed read in a row has sent the second sensor alert
C25_Witness ==
    /\ last.act = "tick"
    /\ last.temp = NoTemp
    /\ hist.failed_reads = 2 * SENSOR_ERROR_LIMIT
    /\ hist.sensor_alerts = 2
    /\ last.alerts = << "sensor_error" >>
    /\ consecutive_errors = 0

\* C26: between ticks RESTART_ATTEMPTS is in 0 .. MAX_RESTART_ATTEMPTS - 1; a
\* start_bot call whose launch fails adds one, wrapping to 0 at
\* MAX_RESTART_ATTEMPTS; a successful launch, and a call that finds the worker
\* running, set it to 0.
C26_RestartCounterRange ==
    /\ RESTART_ATTEMPTS \in 0 .. MAX_RESTART_ATTEMPTS - 1
    /\ (last.act \in {"startup", "tick"} /\ Called("start_bot"))
            => RESTART_ATTEMPTS =
                 (IF last.io.popen = "raised"
                  THEN (last.restarts + 1) % MAX_RESTART_ATTEMPTS
                  ELSE 0)

\* the third failed launch in a row has set the counter back to 0
C26_Witness ==
    /\ last.act = "tick"
    /\ last.io.popen = "raised"
    /\ last.restarts = MAX_RESTART_ATTEMPTS - 1
    /\ hist.failed_starts = MAX_RESTART_ATTEMPTS
    /\ RESTART_ATTEMPTS = 0

\* C27: a challenge that stays in the challenge list is announced as new in at
\* most one run of the monitor task, also when later steps of runs raise.
C27_AnnouncedOnce ==
    ctfd.act = "monitor"
        => \A ch \in ChallengeNames : ctfd.announced[ch] <= 1

====
